---- MODULE Spec2Model ----
(***************************************************************************)
(* Edge geometry of the network-topology editor: boundary parameters,      *)
(* parallel-edge offsets, 90-degree routing, label placement and the       *)
(* FloatingEdge component that chains them in its layout effect.           *)
(*                                                                         *)
(* Numbers are fixed-point: one pixel is Px(1) = 10 units, so halves and   *)
(* the sines/cosines of axis-aligned and 3-4-5 directions are exact.       *)
(***************************************************************************)
EXTENDS Integers, Sequences, FiniteSets, TLC

VARIABLES
  nodes,           \* store.nodeLookup: node id -> node record
  edges,           \* store.edges: sequence of [id, source, target]
  edgeType,        \* data.edgeType of the connector the component draws
  labelPositions,  \* useState<EdgePositions>: source, target, path
  warningShown,    \* warningShownRef.current: set of warning keys
  warnings,        \* console.warn calls: direction -> number of calls
  mounted,         \* the component has run its first layout effect
  pass,            \* locals of the last run of the layout effect
  call,            \* arguments of a direct call of a geometry function
  ret              \* what that call returned

vars == <<nodes, edges, edgeType, labelPositions, warningShown, warnings,
          mounted, pass, call, ret>>

-----------------------------------------------------------------------------
(* Bounds                                                                  *)

MaxEdges == 2        \* length of store.edges in the component runs
MaxGroup == 4        \* length of the edge list in direct offset calls
MaxWarnings == 2     \* console.warn calls counted per direction
MaxShared == 3       \* length of the edge list in single offset calls
MaxOverlap == 3      \* length of the edge list in overlap detection calls
MaxGap == 120        \* largest vertical gap of a step label call, pixels

-----------------------------------------------------------------------------
(* Program constants                                                       *)

LABEL_DISTANCE == 40
MIN_LABEL_DISTANCE == 20
MIN_EDGE_SPACING == 2
MAX_EDGE_SPACING == 8
MIN_ANGLE_DISTANCE == 20

-----------------------------------------------------------------------------
(* Numbers                                                                 *)

Px(n) == 10 * n

Abs(a) == IF a < 0 THEN 0 - a ELSE a

Max(a, b) == IF a >= b THEN a ELSE b

\* a / b, rounded toward zero
Quot(a, b) == IF a < 0 THEN 0 - ((0 - a) \div b) ELSE a \div b

\* product of two fixed-point numbers
FxMul(a, b) == Quot(a * b, Px(1))

RECURSIVE SqrtSearch(_, _, _)
SqrtSearch(n, lo, hi) ==
  IF lo >= hi THEN lo
  ELSE LET mid == (lo + hi + 1) \div 2
       IN  IF mid * mid <= n THEN SqrtSearch(n, mid, hi)
                             ELSE SqrtSearch(n, lo, mid - 1)

Hypot(dx, dy) == SqrtSearch(dx * dx + dy * dy, 0, Abs(dx) + Abs(dy))

\* Math.cos(Math.atan2(dy, dx)); atan2(0, 0) is 0
CosAtan2(dy, dx) ==
  IF dx = 0 /\ dy = 0 THEN Px(1) ELSE Quot(Px(1) * dx, Hypot(dx, dy))

\* Math.sin(Math.atan2(dy, dx))
SinAtan2(dy, dx) ==
  IF dx = 0 /\ dy = 0 THEN 0 ELSE Quot(Px(1) * dy, Hypot(dx, dy))

Point(x, y) == [x |-> x, y |-> y]

ZeroOffsets == [sourceOffset |-> Point(0, 0), targetOffset |-> Point(0, 0)]

-----------------------------------------------------------------------------
(* Types                                                                   *)

NodeIds == {"A", "B", "C"}

EdgeDirection == {"right", "left", "top", "bottom"}

AngleTypes == {"angle-right", "angle-left", "angle-top", "angle-bottom"}

EdgeTypes == {"default", "straight", "step", "smoothstep"} \cup AngleTypes

\* data.edgeType.startsWith('angle-')
IsAngle(type) == type \in AngleTypes

\* data.edgeType.split('-')[1]
DirectionOf(type) ==
  CASE type = "angle-right"  -> "right"
    [] type = "angle-left"   -> "left"
    [] type = "angle-top"    -> "top"
    [] type = "angle-bottom" -> "bottom"

Null == "null"

\* a path string that is null
NoPath == <<>>

\* no call has returned
NoReturn == [fn |-> "none"]

-----------------------------------------------------------------------------
(* utils/edgeUtils.ts                                                      *)

\* node.measured of a node that has not been measured: no width, no height
Unmeasured == [unmeasured |-> TRUE]

\* const { width = 0, height = 0 } = node.measured ?? {}
measuredWidth(node) ==
  IF "width" \in DOMAIN node.measured THEN node.measured.width ELSE 0

measuredHeight(node) ==
  IF "height" \in DOMAIN node.measured THEN node.measured.height ELSE 0

getNodeCenter(node) ==
  Point(node.position.x + Quot(measuredWidth(node), 2),
        node.position.y + Quot(measuredHeight(node), 2))

\* getEdgePosition whose first range takes both of its ends:
\* angle >= -45 && angle <= 45
getEdgePositionClosedRange(source, target) ==
  LET dx == target.x - source.x
      dy == target.y - source.y
  IN  IF dx = 0 /\ dy = 0 THEN "right"
      ELSE IF dx > 0 /\ 0 - dx <= dy /\ dy <= dx THEN "right"
      ELSE IF dy > 0 /\ 0 - dy < dx /\ dx <= dy THEN "bottom"
      ELSE IF dx < 0 /\ ((dy >= 0 /\ dy <= 0 - dx) \/ (dy < 0 /\ 0 - dy < 0 - dx))
           THEN "left"
      ELSE "top"

\* the angle tests of getEdgePosition, in degrees, on the vector (dx, dy)
getEdgePosition(source, target) ==
  LET dx == target.x - source.x
      dy == target.y - source.y
  IN  IF dx = 0 /\ dy = 0 THEN "right"
      ELSE IF dx > 0 /\ 0 - dx <= dy /\ dy < dx THEN "right"
      ELSE IF dy > 0 /\ 0 - dy < dx /\ dx <= dy THEN "bottom"
      ELSE IF dx < 0 /\ ((dy >= 0 /\ dy <= 0 - dx) \/ (dy < 0 /\ 0 - dy < 0 - dx))
           THEN "left"
      ELSE "top"

getEdgeParams(source, target) ==
  LET sourceCenter == getNodeCenter(source)
      targetCenter == getNodeCenter(target)
  IN  [sx |-> sourceCenter.x, sy |-> sourceCenter.y,
       tx |-> targetCenter.x, ty |-> targetCenter.y,
       sourcePos |-> getEdgePosition(sourceCenter, targetCenter),
       targetPos |-> getEdgePosition(targetCenter, sourceCenter)]

(* getNodeIntersection of the earlier edge utilities *)

\* part_007: the point where the line between the centres crosses the node's
\* diamond. With dx = x1 - x2 and dy = y1 - y2 the code's xx1 and yy1 are
\* (h dx - w dy) / 2wh and (h dx + w dy) / 2wh, so a = 2wh / S and the point
\* is (x2, y2) + (2wh / S) (dx, dy). The other node's centre is taken with
\* the half sizes w and h of the node itself.
getNodeIntersectionDiamond(intersectionNode, targetNode) ==
  LET w == Quot(measuredWidth(intersectionNode), 2)
      h == Quot(measuredHeight(intersectionNode), 2)
      x2 == intersectionNode.position.x + w
      y2 == intersectionNode.position.y + h
      x1 == targetNode.position.x + w
      y1 == targetNode.position.y + h
      S == Abs(h * (x1 - x2) - w * (y1 - y2)) + Abs(h * (x1 - x2) + w * (y1 - y2))
  IN  Point(x2 + Quot(2 * w * h * (x1 - x2), S), y2 + Quot(2 * w * h * (y1 - y2), S))

\* components/Sidebar.tsx: the point on the circle of radius width / 2; both
\* centres are taken with that radius
getNodeIntersectionCircle(intersectionNode, targetNode) ==
  LET radius == Quot(measuredWidth(intersectionNode), 2)
      sourceX == intersectionNode.position.x + radius
      sourceY == intersectionNode.position.y + radius
      targetX == targetNode.position.x + radius
      targetY == targetNode.position.y + radius
      dx == targetX - sourceX
      dy == targetY - sourceY
  IN  Point(sourceX + FxMul(CosAtan2(dy, dx), radius),
            sourceY + FxMul(SinAtan2(dy, dx), radius))

\* part_008: the point on the ellipse of the node, at the angle between the
\* centres of the two nodes
getNodeIntersectionEllipse(node, target) ==
  LET centerX == node.position.x + Quot(measuredWidth(node), 2)
      centerY == node.position.y + Quot(measuredHeight(node), 2)
      targetCenterX == target.position.x + Quot(measuredWidth(target), 2)
      targetCenterY == target.position.y + Quot(measuredHeight(target), 2)
      dx == targetCenterX - centerX
      dy == targetCenterY - centerY
  IN  Point(centerX + Quot(FxMul(CosAtan2(dy, dx), measuredWidth(node)), 2),
            centerY + Quot(FxMul(SinAtan2(dy, dx), measuredHeight(node)), 2))

-----------------------------------------------------------------------------
(* utils/edge/parallelEdges.ts, utils/edge/constants.ts                    *)

\* Array.prototype.findIndex on edge.id, 0-based, -1 when absent
RECURSIVE FindIndexFrom(_, _, _)
FindIndexFrom(list, id, i) ==
  IF i > Len(list) THEN 0 - 1
  ELSE IF list[i].id = id THEN i - 1
  ELSE FindIndexFrom(list, id, i + 1)

findIndex(list, id) == FindIndexFrom(list, id, 1)

\* IsParallelTo that takes every edge of the list into the group
IsParallelToAny(edge, source, target) ==
  edge.source # edge.target

IsParallelTo(edge, source, target) ==
  \/ (edge.source = source.id /\ edge.target = target.id)
  \/ (edge.source = target.id /\ edge.target = source.id)

\* ParallelLocals with the centre taken at count / 2
ParallelLocalsCentreOff(source, target, edgeId, allEdges) ==
  LET parallelEdges == SelectSeq(allEdges, LAMBDA e : IsParallelTo(e, source, target))
      dx == target.position.x - source.position.x
      dy == target.position.y - source.position.y
      edgeIndex == findIndex(parallelEdges, edgeId)
      centerIndex == Quot(Px(Len(parallelEdges)), 2)
      baseSpacing == Max(MAX_EDGE_SPACING - Len(parallelEdges), MIN_EDGE_SPACING)
      offset == (Px(edgeIndex) - centerIndex) * baseSpacing
  IN  [count |-> Len(parallelEdges), edgeIndex |-> edgeIndex,
       centerIndex |-> centerIndex, baseSpacing |-> baseSpacing,
       offset |-> offset,
       perpX |-> FxMul(SinAtan2(dy, dx), offset),
       perpY |-> FxMul(0 - CosAtan2(dy, dx), offset)]

\* ParallelLocals with the spacing fixed at MIN_EDGE_SPACING
ParallelLocalsMinSpacing(source, target, edgeId, allEdges) ==
  LET parallelEdges == SelectSeq(allEdges, LAMBDA e : IsParallelTo(e, source, target))
      dx == target.position.x - source.position.x
      dy == target.position.y - source.position.y
      edgeIndex == findIndex(parallelEdges, edgeId)
      centerIndex == Quot(Px(Len(parallelEdges) - 1), 2)
      baseSpacing == MIN_EDGE_SPACING
      offset == (Px(edgeIndex) - centerIndex) * baseSpacing
  IN  [count |-> Len(parallelEdges), edgeIndex |-> edgeIndex,
       centerIndex |-> centerIndex, baseSpacing |-> baseSpacing,
       offset |-> offset,
       perpX |-> FxMul(SinAtan2(dy, dx), offset),
       perpY |-> FxMul(0 - CosAtan2(dy, dx), offset)]

\* the locals of calculateParallelOffset once the group has two members
ParallelLocals(source, target, edgeId, allEdges) ==
  LET parallelEdges == SelectSeq(allEdges, LAMBDA e : IsParallelTo(e, source, target))
      dx == target.position.x - source.position.x
      dy == target.position.y - source.position.y
      edgeIndex == findIndex(parallelEdges, edgeId)
      centerIndex == Quot(Px(Len(parallelEdges) - 1), 2)
      baseSpacing == Max(MAX_EDGE_SPACING - Len(parallelEdges), MIN_EDGE_SPACING)
      offset == (Px(edgeIndex) - centerIndex) * baseSpacing
  IN  [count |-> Len(parallelEdges), edgeIndex |-> edgeIndex,
       centerIndex |-> centerIndex, baseSpacing |-> baseSpacing,
       offset |-> offset,
       perpX |-> FxMul(SinAtan2(dy, dx), offset),
       perpY |-> FxMul(0 - CosAtan2(dy, dx), offset)]

\* calculateParallelOffset without the return for a group of at most one
calculateParallelOffsetUnguarded(source, target, edgeId, allEdges) ==
  LET l == ParallelLocals(source, target, edgeId, allEdges)
  IN  [sourceOffset |-> Point(l.perpX, l.perpY),
       targetOffset |-> Point(l.perpX, l.perpY)]

calculateParallelOffset(source, target, edgeId, allEdges) ==
  LET l == ParallelLocals(source, target, edgeId, allEdges)
  IN  IF l.count <= 1 THEN ZeroOffsets
      ELSE [sourceOffset |-> Point(l.perpX, l.perpY),
            targetOffset |-> Point(l.perpX, l.perpY)]

\* the locals of calculate90DegreeOffset with the spacing taken from
\* MAX_EDGE_SPACING, not from its half
AngleOffsetLocalsFullSpacing(source, target, edgeId, allEdges) ==
  LET sourceEdges == SelectSeq(allEdges, LAMBDA e : e.source = source.id)
      edgeIndex == findIndex(sourceEdges, edgeId)
      totalEdges == Len(sourceEdges)
      baseSpacing == Max(MAX_EDGE_SPACING - totalEdges, MIN_EDGE_SPACING)
      centerIndex == Quot(Px(totalEdges - 1), 2)
      dx == target.position.x - source.position.x
      dy == target.position.y - source.position.y
  IN  [count |-> totalEdges, edgeIndex |-> edgeIndex,
       centerIndex |-> centerIndex, baseSpacing |-> baseSpacing,
       offset |-> (Px(edgeIndex) - centerIndex) * baseSpacing,
       isHorizontal |-> Abs(dx) > Abs(dy)]

\* the locals of calculate90DegreeOffset once the source has two edges
AngleOffsetLocals(source, target, edgeId, allEdges) ==
  LET sourceEdges == SelectSeq(allEdges, LAMBDA e : e.source = source.id)
      edgeIndex == findIndex(sourceEdges, edgeId)
      totalEdges == Len(sourceEdges)
      baseSpacing == Max(MAX_EDGE_SPACING \div 2 - totalEdges, MIN_EDGE_SPACING)
      centerIndex == Quot(Px(totalEdges - 1), 2)
      dx == target.position.x - source.position.x
      dy == target.position.y - source.position.y
  IN  [count |-> totalEdges, edgeIndex |-> edgeIndex,
       centerIndex |-> centerIndex, baseSpacing |-> baseSpacing,
       offset |-> (Px(edgeIndex) - centerIndex) * baseSpacing,
       isHorizontal |-> Abs(dx) > Abs(dy)]

\* calculate90DegreeOffset that moves the start of the connector only
calculate90DegreeOffsetStartOnly(source, target, edgeId, allEdges, direction) ==
  LET l == AngleOffsetLocals(source, target, edgeId, allEdges)
  IN  IF l.count <= 1 THEN ZeroOffsets
      ELSE IF l.isHorizontal \/ direction = "right" \/ direction = "left"
      THEN [sourceOffset |-> Point(0, l.offset), targetOffset |-> Point(0, 0)]
      ELSE [sourceOffset |-> Point(l.offset, 0), targetOffset |-> Point(0, 0)]

calculate90DegreeOffset(source, target, edgeId, allEdges, direction) ==
  LET l == AngleOffsetLocals(source, target, edgeId, allEdges)
  IN  IF l.count <= 1 THEN ZeroOffsets
      ELSE IF l.isHorizontal \/ direction = "right" \/ direction = "left"
      THEN [sourceOffset |-> Point(0, l.offset), targetOffset |-> Point(0, l.offset)]
      ELSE [sourceOffset |-> Point(l.offset, 0), targetOffset |-> Point(l.offset, 0)]

-----------------------------------------------------------------------------
(* utils/edge/pathCalculation.ts                                           *)

\* canCreate90DegreeAngle with the threshold itself accepted
canCreate90DegreeAngleInclusive(sourceX, sourceY, targetX, targetY, direction) ==
  CASE direction = "right"  -> targetX >= sourceX + Px(MIN_ANGLE_DISTANCE)
    [] direction = "left"   -> targetX <= sourceX - Px(MIN_ANGLE_DISTANCE)
    [] direction = "top"    -> targetY <= sourceY - Px(MIN_ANGLE_DISTANCE)
    [] direction = "bottom" -> targetY >= sourceY + Px(MIN_ANGLE_DISTANCE)

\* canCreate90DegreeAngle that also wants the routing axis to dominate
canCreate90DegreeAngleDominant(sourceX, sourceY, targetX, targetY, direction) ==
  LET xDiff == Abs(targetX - sourceX)
      yDiff == Abs(targetY - sourceY)
  IN  CASE direction = "right"  -> targetX > sourceX + Px(MIN_ANGLE_DISTANCE) /\ xDiff >= yDiff
        [] direction = "left"   -> targetX < sourceX - Px(MIN_ANGLE_DISTANCE) /\ xDiff >= yDiff
        [] direction = "top"    -> targetY < sourceY - Px(MIN_ANGLE_DISTANCE) /\ yDiff >= xDiff
        [] direction = "bottom" -> targetY > sourceY + Px(MIN_ANGLE_DISTANCE) /\ yDiff >= xDiff

canCreate90DegreeAngle(sourceX, sourceY, targetX, targetY, direction) ==
  CASE direction = "right"  -> targetX > sourceX + Px(MIN_ANGLE_DISTANCE)
    [] direction = "left"   -> targetX < sourceX - Px(MIN_ANGLE_DISTANCE)
    [] direction = "top"    -> targetY < sourceY - Px(MIN_ANGLE_DISTANCE)
    [] direction = "bottom" -> targetY > sourceY + Px(MIN_ANGLE_DISTANCE)

\* one command of an SVG path string
Cmd(op, x, y) == [op |-> op, x |-> x, y |-> y]

\* calculate90DegreePath that bends at (source x, target y) in every direction
calculate90DegreePathVerticalFirst(sourceX, sourceY, targetX, targetY, direction, sourceOffset, targetOffset) ==
  LET sx == sourceX + sourceOffset.x
      sy == sourceY + sourceOffset.y
      tx == targetX + targetOffset.x
      ty == targetY + targetOffset.y
  IN  IF ~canCreate90DegreeAngle(sx, sy, tx, ty, direction) THEN NoPath
      ELSE <<Cmd("M", sx, sy), Cmd("L", sx, ty), Cmd("L", tx, ty)>>

\* calculate90DegreePath without the feasibility check
calculate90DegreePathUnchecked(sourceX, sourceY, targetX, targetY, direction, sourceOffset, targetOffset) ==
  LET sx == sourceX + sourceOffset.x
      sy == sourceY + sourceOffset.y
      tx == targetX + targetOffset.x
      ty == targetY + targetOffset.y
  IN  IF direction \in {"right", "left"}
      THEN <<Cmd("M", sx, sy), Cmd("L", tx, sy), Cmd("L", tx, ty)>>
      ELSE <<Cmd("M", sx, sy), Cmd("L", sx, ty), Cmd("L", tx, ty)>>

calculate90DegreePath(sourceX, sourceY, targetX, targetY, direction, sourceOffset, targetOffset) ==
  LET sx == sourceX + sourceOffset.x
      sy == sourceY + sourceOffset.y
      tx == targetX + targetOffset.x
      ty == targetY + targetOffset.y
  IN  IF ~canCreate90DegreeAngle(sx, sy, tx, ty, direction) THEN NoPath
      ELSE IF direction \in {"right", "left"}
      THEN <<Cmd("M", sx, sy), Cmd("L", tx, sy), Cmd("L", tx, ty)>>
      ELSE <<Cmd("M", sx, sy), Cmd("L", sx, ty), Cmd("L", tx, ty)>>

-----------------------------------------------------------------------------
(* utils/edge/labelPosition.ts                                             *)

\* calculateStraightLabelPositions that moves the target anchor the same way
\* as the source anchor
calculateStraightLabelPositionsSameWay(sourceX, sourceY, targetX, targetY) ==
  LET cos == CosAtan2(targetY - sourceY, targetX - sourceX)
      sin == SinAtan2(targetY - sourceY, targetX - sourceX)
  IN  [source |-> Point(sourceX + cos * LABEL_DISTANCE, sourceY + sin * LABEL_DISTANCE),
       target |-> Point(targetX + cos * LABEL_DISTANCE, targetY + sin * LABEL_DISTANCE)]

calculateStraightLabelPositions(sourceX, sourceY, targetX, targetY) ==
  LET cos == CosAtan2(targetY - sourceY, targetX - sourceX)
      sin == SinAtan2(targetY - sourceY, targetX - sourceX)
  IN  [source |-> Point(sourceX + cos * LABEL_DISTANCE, sourceY + sin * LABEL_DISTANCE),
       target |-> Point(targetX - cos * LABEL_DISTANCE, targetY - sin * LABEL_DISTANCE)]

\* calculateStepLabelPositions that compares the gap, not its half, with
\* LABEL_DISTANCE + 15
calculateStepLabelPositionsByGap(sourceX, sourceY, targetX, targetY) ==
  LET middlePoint == Quot(targetY - sourceY, 2)
      isConjusted == targetY - sourceY < Px(LABEL_DISTANCE + 15)
      delta == IF isConjusted THEN middlePoint ELSE Px(LABEL_DISTANCE)
      isOpposite == targetY - sourceY < Px(MIN_LABEL_DISTANCE)
      applied == IF isOpposite THEN Px(MIN_LABEL_DISTANCE) ELSE delta
  IN  [source |-> Point(sourceX, sourceY + applied),
       target |-> Point(targetX, targetY - applied)]

\* calculateStepLabelPositions without the minimum distance of a small gap
calculateStepLabelPositionsNoMinimum(sourceX, sourceY, targetX, targetY) ==
  LET middlePoint == Quot(targetY - sourceY, 2)
      isConjusted == middlePoint < Px(LABEL_DISTANCE + 15)
      delta == IF isConjusted THEN middlePoint ELSE Px(LABEL_DISTANCE)
  IN  [source |-> Point(sourceX, sourceY + delta),
       target |-> Point(targetX, targetY - delta)]

calculateStepLabelPositions(sourceX, sourceY, targetX, targetY) ==
  LET middlePoint == Quot(targetY - sourceY, 2)
      isConjusted == middlePoint < Px(LABEL_DISTANCE + 15)
      delta == IF isConjusted THEN middlePoint ELSE Px(LABEL_DISTANCE)
      isOpposite == targetY - sourceY < Px(MIN_LABEL_DISTANCE)
      applied == IF isOpposite THEN Px(MIN_LABEL_DISTANCE) ELSE delta
  IN  [source |-> Point(sourceX, sourceY + applied),
       target |-> Point(targetX, targetY - applied)]

calculateAngleLabelPositions(sourceX, sourceY, targetX, targetY, direction) ==
  LET isSourceLeftOfTarget == sourceX < targetX
      isSourceAboveTarget == sourceY < targetY
      D == Px(LABEL_DISTANCE)
      targetH == Point(targetX, targetY + (IF isSourceAboveTarget THEN 0 - D ELSE D))
      targetV == Point(targetX + (IF isSourceLeftOfTarget THEN 0 - D ELSE D), targetY)
  IN  CASE direction \in {"right", "left"} ->
             [source |-> Point(IF isSourceLeftOfTarget THEN sourceX + D ELSE sourceX - D,
                               sourceY),
              target |-> targetH]
        [] direction = "top" ->
             [source |-> Point(sourceX, IF isSourceAboveTarget THEN sourceY - D
                                        ELSE sourceY + D - Px(80)),
              target |-> targetV]
        [] direction = "bottom" ->
             [source |-> Point(sourceX, IF isSourceAboveTarget THEN sourceY + D
                                        ELSE sourceY - D),
              target |-> targetV]

-----------------------------------------------------------------------------
(* utils/edge/overlapDetection.ts                                          *)

\* detectOverlappingEdges that does not leave out the current edge
detectOverlappingEdgesWithSelf(nodeId, currentEdgeId, allEdges, type) ==
  LET sameType(e) == type \in {Null, ""} \/ e.data.edgeType = type
      bySource == SelectSeq(allEdges, LAMBDA e : e.source = nodeId)
      byTarget == SelectSeq(allEdges, LAMBDA e : e.target = nodeId)
      overlappingEdges == [source |-> SelectSeq(bySource, sameType),
                           target |-> SelectSeq(byTarget, sameType)]
  IN  [hasOverlap |-> Len(overlappingEdges.source) > 0 \/ Len(overlappingEdges.target) > 0,
       overlappingEdges |-> overlappingEdges,
       counts |-> [source |-> Len(overlappingEdges.source),
                   target |-> Len(overlappingEdges.target)]]

\* an edgeType that is undefined or '' is not given; an edge without data
\* has the edgeType Null
detectOverlappingEdges(nodeId, currentEdgeId, allEdges, type) ==
  LET sameType(e) == type \in {Null, ""} \/ e.data.edgeType = type
      bySource == SelectSeq(allEdges, LAMBDA e : e.id # currentEdgeId /\ e.source = nodeId)
      byTarget == SelectSeq(allEdges, LAMBDA e : e.id # currentEdgeId /\ e.target = nodeId)
      overlappingEdges == [source |-> SelectSeq(bySource, sameType),
                           target |-> SelectSeq(byTarget, sameType)]
  IN  [hasOverlap |-> Len(overlappingEdges.source) > 0 \/ Len(overlappingEdges.target) > 0,
       overlappingEdges |-> overlappingEdges,
       counts |-> [source |-> Len(overlappingEdges.source),
                   target |-> Len(overlappingEdges.target)]]

-----------------------------------------------------------------------------
(* components/FloatingEdge: the component of one connector                 *)

\* the props of the component instance
id == "e1"
source == "A"
target == "B"

\* the path strings of the rendering library: they start at the source
\* point given and end at the target point given
getStraightPath(sourceX, sourceY, targetX, targetY) ==
  <<Cmd("M", sourceX, sourceY), Cmd("L", targetX, targetY)>>

getSmoothStepPath(sourceX, sourceY, targetX, targetY, borderRadius) ==
  <<Cmd("M", sourceX, sourceY),
    Cmd(IF borderRadius = 0 THEN "step" ELSE "smoothstep", targetX, targetY)>>

getBezierPath(sourceX, sourceY, targetX, targetY) ==
  <<Cmd("M", sourceX, sourceY), Cmd("C", targetX, targetY)>>

InitialLabelPositions ==
  [source |-> Point(0, 0), target |-> Point(0, 0), path |-> <<>>]

NoPass ==
  [ran |-> FALSE, sx |-> 0, sy |-> 0, tx |-> 0, ty |-> 0,
   sourceOffset |-> Point(0, 0), targetOffset |-> Point(0, 0),
   direction |-> Null, anglePath |-> NoPath]

NoWarnings == [d \in EdgeDirection |-> 0]

\* showWarningOnce that does not look at the ref
showWarningEveryTime(direction, shown, warned) ==
  [shown |-> shown \cup {<<"e1", direction>>},
   warned |-> [warned EXCEPT ![direction] = @ + 1]]

\* showWarningOnce: the ref and the console after the call
showWarningOnce(direction, shown, warned) ==
  LET warningKey == <<id, direction>>
  IN  IF warningKey \notin shown
      THEN [shown |-> shown \cup {warningKey},
            warned |-> [warned EXCEPT ![direction] = @ + 1]]
      ELSE [shown |-> shown, warned |-> warned]

\* one run of the layout effect that computes path and label positions:
\* each local is computed once, in the order of the code
LayoutEffect(lookup, allEdges, type) ==
  IF source \notin DOMAIN lookup \/ target \notin DOMAIN lookup
  THEN UNCHANGED <<labelPositions, warningShown, warnings, pass>>
  ELSE
  \E p \in {getEdgeParams(lookup[source], lookup[target])} :
  \E direction \in {IF IsAngle(type) THEN DirectionOf(type) ELSE Null} :
  \E offsets \in {IF IsAngle(type)
                  THEN calculate90DegreeOffset(lookup[source], lookup[target], id,
                                               allEdges, direction)
                  ELSE calculateParallelOffset(lookup[source], lookup[target], id,
                                               allEdges)} :
  \E sourceX \in {p.sx + offsets.sourceOffset.x} :
  \E sourceY \in {p.sy + offsets.sourceOffset.y} :
  \E targetX \in {p.tx + offsets.targetOffset.x} :
  \E targetY \in {p.ty + offsets.targetOffset.y} :
  \E anglePath \in {IF IsAngle(type)
                    THEN calculate90DegreePath(sourceX, sourceY, targetX, targetY,
                                               direction, offsets.sourceOffset,
                                               offsets.targetOffset)
                    ELSE NoPath} :
  \E w \in {IF IsAngle(type) /\ anglePath = NoPath
            THEN showWarningOnce(direction, warningShown, warnings)
            ELSE [shown |-> warningShown, warned |-> warnings]} :
  \E edgePath \in
       {CASE type = "straight" -> getStraightPath(sourceX, sourceY, targetX, targetY)
          [] type \in {"step", "smoothstep"} ->
               getSmoothStepPath(sourceX, sourceY, targetX, targetY,
                                 IF type = "step" THEN 0 ELSE 16)
          [] IsAngle(type) ->
               IF anglePath # NoPath THEN anglePath
               ELSE getStraightPath(sourceX, sourceY, targetX, targetY)
          [] OTHER -> getBezierPath(sourceX, sourceY, targetX, targetY)} :
  \E labelPos \in
       {CASE type \in {"step", "smoothstep"} ->
               calculateStepLabelPositions(sourceX, sourceY, targetX, targetY)
          [] IsAngle(type) /\ anglePath # NoPath ->
               calculateAngleLabelPositions(sourceX, sourceY, targetX, targetY, direction)
          [] OTHER ->
               calculateStraightLabelPositions(sourceX, sourceY, targetX, targetY)} :
      /\ labelPositions' = [source |-> labelPos.source, target |-> labelPos.target,
                            path |-> edgePath]
      /\ warningShown' = w.shown
      /\ warnings' = w.warned
      /\ pass' = [ran |-> TRUE, sx |-> p.sx, sy |-> p.sy, tx |-> p.tx, ty |-> p.ty,
                  sourceOffset |-> offsets.sourceOffset,
                  targetOffset |-> offsets.targetOffset,
                  direction |-> direction, anglePath |-> anglePath]

\* what the component returns to the renderer
NoElement == [element |-> "null"]

\* render that draws the path whatever the lookup holds
RenderUnguarded(lookup, displayed) ==
  [element |-> "path", d |-> displayed.path,
   source |-> displayed.source, target |-> displayed.target]

\* the render guard and the elements returned: the path and the two labels
Render(lookup, displayed) ==
  IF source \notin DOMAIN lookup \/ target \notin DOMAIN lookup
  THEN NoElement
  ELSE [element |-> "path", d |-> displayed.path,
        source |-> displayed.source, target |-> displayed.target]

\* a render pass that leaves the display alone once the warning of the
\* requested direction is in the ref
RerenderUnlessWarned(lookup, allEdges, type) ==
  IF IsAngle(type) /\ <<id, DirectionOf(type)>> \in warningShown
  THEN UNCHANGED <<labelPositions, warningShown, warnings, pass>>
  ELSE /\ LayoutEffect(lookup, allEdges, type)
       /\ \A d \in EdgeDirection : warnings'[d] <= MaxWarnings

\* the component re-renders and its layout effect runs on the new store
Rerender(lookup, allEdges, type) ==
  /\ LayoutEffect(lookup, allEdges, type)
  /\ \A d \in EdgeDirection : warnings'[d] <= MaxWarnings

-----------------------------------------------------------------------------
(* The diagram the component runs in                                       *)

NodePositions ==
  [A |-> {Point(Px(0), Px(0)), Point(Px(40), Px(0)),
          Point(Px(0), Px(30)), Point(Px(40), Px(30))},
   B |-> {Point(Px(0), Px(0)), Point(Px(40), Px(0)),
          Point(Px(0), Px(30)), Point(Px(40), Px(30))},
   C |-> {Point(Px(0), Px(0)), Point(Px(40), Px(30))}]

MeasuredSizes == {[width |-> Px(100), height |-> Px(60)]}

Node(n, position, measured) ==
  [id |-> n, position |-> position, measured |-> measured]

Lookups ==
  {l \in [NodeIds -> [id : NodeIds,
                      position : UNION {NodePositions[n] : n \in NodeIds},
                      measured : MeasuredSizes]] :
     \A n \in NodeIds : l[n].id = n /\ l[n].position \in NodePositions[n]}

Edge(e, s, t) == [id |-> e, source |-> s, target |-> t]

\* the other connectors of the diagram join these ordered pairs
OtherEnds == {<<"A", "B">>, <<"B", "A">>, <<"A", "C">>, <<"C", "B">>}

IdOrder == <<"e1", "e2", "e3", "e4", "e5">>

UsedIds(list) == {list[i].id : i \in 1..Len(list)}

\* the id given to the next connector added
FreshId(list) ==
  IdOrder[CHOOSE i \in 1..Len(IdOrder) :
            /\ IdOrder[i] \notin UsedIds(list)
            /\ \A j \in 1..(i - 1) : IdOrder[j] \in UsedIds(list)]

RemoveAt(list, i) == SubSeq(list, 1, i - 1) \o SubSeq(list, i + 1, Len(list))

InitialEdgeLists ==
  {<<Edge(id, source, target)>>} \cup
  {<<Edge("e2", ends[1], ends[2]), Edge(id, source, target)>> : ends \in OtherEnds}

Idle == call = Null /\ ret = NoReturn

Init ==
  /\ nodes \in Lookups
  /\ edges \in InitialEdgeLists
  /\ edgeType \in EdgeTypes
  /\ labelPositions = InitialLabelPositions
  /\ warningShown = {}
  /\ warnings = NoWarnings
  /\ mounted = FALSE
  /\ pass = NoPass
  /\ Idle

\* the first render of the component
Mount ==
  /\ ~mounted
  /\ mounted' = TRUE
  /\ Rerender(nodes, edges, edgeType)
  /\ UNCHANGED <<nodes, edges, edgeType, call, ret>>

\* the store selector's equality function: TRUE when the component keeps
\* its selection and does not re-render
SamePosition(prevNodes, nextNodes, n) ==
  IF n \in DOMAIN prevNodes /\ n \in DOMAIN nextNodes
  THEN prevNodes[n].position = nextNodes[n].position
  ELSE n \notin DOMAIN prevNodes /\ n \notin DOMAIN nextNodes

SelectionEqual(prevNodes, nextNodes, prevEdges, nextEdges) ==
  /\ SamePosition(prevNodes, nextNodes, source)
  /\ SamePosition(prevNodes, nextNodes, target)
  /\ prevEdges = nextEdges

\* a node is dragged to another place
MoveNode(n, position) ==
  /\ mounted
  /\ n \in DOMAIN nodes
  /\ nodes[n].position # position
  /\ nodes' = [nodes EXCEPT ![n].position = position]
  /\ IF SelectionEqual(nodes, nodes', edges, edges)
     THEN UNCHANGED <<labelPositions, warningShown, warnings, pass>>
     ELSE Rerender(nodes', edges, edgeType)
  /\ UNCHANGED <<edges, edgeType, mounted, call, ret>>

\* a connector is drawn between two nodes
AddEdge(s, t) ==
  /\ mounted
  /\ Len(edges) < MaxEdges
  /\ edges' = Append(edges, Edge(FreshId(edges), s, t))
  /\ Rerender(nodes, edges', edgeType)
  /\ UNCHANGED <<nodes, edgeType, mounted, call, ret>>

\* another connector is deleted
RemoveEdge(i) ==
  /\ mounted
  /\ edges[i].id # id
  /\ edges' = RemoveAt(edges, i)
  /\ Rerender(nodes, edges', edgeType)
  /\ UNCHANGED <<nodes, edgeType, mounted, call, ret>>

\* the connector style is changed from the toolbar
SetEdgeType(type) ==
  /\ mounted
  /\ type # edgeType
  /\ edgeType' = type
  /\ Rerender(nodes, edges, type)
  /\ UNCHANGED <<nodes, edges, mounted, call, ret>>

Next ==
  \/ Mount
  \/ \E n \in NodeIds : \E position \in NodePositions[n] : MoveNode(n, position)
  \/ \E ends \in OtherEnds : AddEdge(ends[1], ends[2])
  \/ \E i \in 1..Len(edges) : RemoveEdge(i)
  \/ \E type \in EdgeTypes : SetEdgeType(type)

Spec == Init /\ [][Next]_vars

(* The component of a connector whose end nodes may be missing from the     *)
(* node lookup or not measured                                              *)

LookupSizes ==
  MeasuredSizes \cup {[width |-> 0, height |-> Px(60)], Unmeasured}

EndNodes == {source, target}

LookupPositions == {Point(Px(0), Px(0)), Point(Px(200), Px(0))}

LookupTypes == {"straight", "step", "angle-right"}

PartialLookups ==
  UNION {[present -> [id : present,
                      position : LookupPositions,
                      measured : LookupSizes]] : present \in SUBSET EndNodes}

InitLookup ==
  /\ nodes \in {l \in PartialLookups : \A n \in DOMAIN l : l[n].id = n}
  /\ edges = <<Edge(id, source, target)>>
  /\ edgeType \in LookupTypes
  /\ labelPositions = InitialLabelPositions
  /\ warningShown = {}
  /\ warnings = NoWarnings
  /\ mounted = FALSE
  /\ pass = NoPass
  /\ Idle

\* a node is deleted from the diagram while the connector stays
RemoveNode(n) ==
  /\ mounted
  /\ n \in DOMAIN nodes
  /\ nodes' = [m \in DOMAIN nodes \ {n} |-> nodes[m]]
  /\ IF SelectionEqual(nodes, nodes', edges, edges)
     THEN UNCHANGED <<labelPositions, warningShown, warnings, pass>>
     ELSE Rerender(nodes', edges, edgeType)
  /\ UNCHANGED <<edges, edgeType, mounted, call, ret>>

\* a node with the id of an end of the connector is put into the diagram
AddNode(n, position, measured) ==
  /\ mounted
  /\ n \notin DOMAIN nodes
  /\ nodes' = [m \in DOMAIN nodes \cup {n} |->
                 IF m = n THEN Node(n, position, measured) ELSE nodes[m]]
  /\ IF SelectionEqual(nodes, nodes', edges, edges)
     THEN UNCHANGED <<labelPositions, warningShown, warnings, pass>>
     ELSE Rerender(nodes', edges, edgeType)
  /\ UNCHANGED <<edges, edgeType, mounted, call, ret>>

\* the size of a node is measured again
MeasureNode(n, measured) ==
  /\ mounted
  /\ n \in DOMAIN nodes
  /\ nodes[n].measured # measured
  /\ nodes' = [nodes EXCEPT ![n].measured = measured]
  /\ IF SelectionEqual(nodes, nodes', edges, edges)
     THEN UNCHANGED <<labelPositions, warningShown, warnings, pass>>
     ELSE Rerender(nodes', edges, edgeType)
  /\ UNCHANGED <<edges, edgeType, mounted, call, ret>>

NextLookup ==
  \/ Mount
  \/ \E n \in EndNodes : \E position \in LookupPositions : MoveNode(n, position)
  \/ \E type \in LookupTypes : SetEdgeType(type)
  \/ \E n \in EndNodes : RemoveNode(n)
  \/ \E n \in EndNodes : \E position \in LookupPositions :
       \E measured \in LookupSizes : AddNode(n, position, measured)
  \/ \E n \in EndNodes : \E measured \in LookupSizes : MeasureNode(n, measured)

SpecLookup == InitLookup /\ [][NextLookup]_vars

(* The pipeline of the layout effect run twice on the same store and style, *)
(* with any contents of the warning ref at each run                         *)

WarningKeys == {<<id, d>> : d \in EdgeDirection}

WarningRefs == {{}, WarningKeys}

InitTwice ==
  /\ nodes \in Lookups
  /\ edges \in InitialEdgeLists
  /\ edgeType \in EdgeTypes
  /\ labelPositions = InitialLabelPositions
  /\ warningShown \in WarningRefs
  /\ warnings = NoWarnings
  /\ mounted = FALSE
  /\ pass = NoPass
  /\ call = Null
  /\ ret = <<>>

\* one render pass on the unchanged inputs; ret keeps what each pass displays
RunPipeline ==
  /\ Len(ret) < 2
  /\ mounted' = TRUE
  /\ Rerender(nodes, edges, edgeType)
  /\ ret' = Append(ret, labelPositions')
  /\ UNCHANGED <<nodes, edges, edgeType, call>>

\* the warning ref holds other keys at the next run
ChangeWarningRef(shown) ==
  /\ Len(ret) = 1
  /\ shown # warningShown
  /\ warningShown' = shown
  /\ UNCHANGED <<nodes, edges, edgeType, labelPositions, warnings, mounted, pass, call, ret>>

NextTwice ==
  \/ RunPipeline
  \/ \E shown \in WarningRefs : ChangeWarningRef(shown)

SpecTwice == InitTwice /\ [][NextTwice]_vars

(* The component in a diagram with two more nodes, C and D, and connectors  *)
(* that share both, one or none of its end nodes                            *)

FrameNodeIds == {"A", "B", "C", "D"}

FramePositions == {Point(Px(0), Px(0)), Point(Px(40), Px(30))}

FrameLookups ==
  {l \in [FrameNodeIds -> [id : FrameNodeIds,
                           position : FramePositions,
                           measured : MeasuredSizes]] :
     \A n \in FrameNodeIds : l[n].id = n}

FrameEnds == {<<"A", "B">>, <<"A", "C">>, <<"C", "D">>, <<"D", "C">>}

InitFrame ==
  /\ nodes \in FrameLookups
  /\ edges \in {<<Edge(id, source, target)>>} \cup
               {<<Edge("e2", ends[1], ends[2]), Edge(id, source, target)>> :
                  ends \in FrameEnds}
  /\ edgeType \in EdgeTypes
  /\ labelPositions = InitialLabelPositions
  /\ warningShown = {}
  /\ warnings = NoWarnings
  /\ mounted = FALSE
  /\ pass = NoPass
  /\ Idle

NextFrame ==
  \/ Mount
  \/ \E n \in FrameNodeIds : \E position \in FramePositions : MoveNode(n, position)
  \/ \E ends \in FrameEnds : AddEdge(ends[1], ends[2])
  \/ \E i \in 1..Len(edges) : RemoveEdge(i)
  \/ \E type \in EdgeTypes : SetEdgeType(type)

SpecFrame == InitFrame /\ [][NextFrame]_vars

-----------------------------------------------------------------------------
(* Direct calls of the geometry functions                                  *)

NoComponent ==
  /\ edgeType = Null
  /\ labelPositions = InitialLabelPositions
  /\ warningShown = {}
  /\ warnings = NoWarnings
  /\ mounted = FALSE
  /\ pass = NoPass

componentVars == <<edgeType, labelPositions, warningShown, warnings, mounted, pass>>

Returned(fn, value) == [fn |-> fn, value |-> value]

(* canCreate90DegreeAngle and calculate90DegreePath on drawn arguments *)

Clearances == {0 - 40, 0 - 21, 0 - 20, 0 - 19, 0, 19, 20, 21, 40}

CallOffsets == {Point(0, 0), Point(0, Px(3)), Point(Px(0 - 1), 0)}

AngleCalls ==
  {[sourceX |-> Px(x), sourceY |-> Px(7),
    targetX |-> Px(x + cx), targetY |-> Px(7 + cy),
    direction |-> d, sourceOffset |-> so, targetOffset |-> to] :
     x \in {0, 7}, cx \in Clearances, cy \in Clearances,
     d \in EdgeDirection, so \in CallOffsets, to \in CallOffsets}

InitAngle ==
  /\ call \in AngleCalls
  /\ ret = NoReturn
  /\ nodes = <<>>
  /\ edges = <<>>
  /\ NoComponent

CallCanCreate90DegreeAngle ==
  /\ ret = NoReturn
  /\ ret' = Returned("canCreate90DegreeAngle",
                     canCreate90DegreeAngle(call.sourceX, call.sourceY,
                                            call.targetX, call.targetY,
                                            call.direction))
  /\ UNCHANGED <<nodes, edges, call, componentVars>>

CallCalculate90DegreePath ==
  /\ ret = NoReturn
  /\ ret' = Returned("calculate90DegreePath",
                     calculate90DegreePath(call.sourceX, call.sourceY,
                                           call.targetX, call.targetY,
                                           call.direction,
                                           call.sourceOffset, call.targetOffset))
  /\ UNCHANGED <<nodes, edges, call, componentVars>>

NextAngle == CallCanCreate90DegreeAngle \/ CallCalculate90DegreePath

SpecAngle == InitAngle /\ [][NextAngle]_vars

(* calculateStepLabelPositions on drawn arguments *)

StepCalls ==
  {[sourceX |-> Px(0), sourceY |-> Px(y),
    targetX |-> Px(x), targetY |-> Px(y + g)] :
     y \in {0, 7}, x \in {0, 30}, g \in (0 - 10)..MaxGap}

InitStep ==
  /\ call \in StepCalls
  /\ ret = NoReturn
  /\ nodes = <<>>
  /\ edges = <<>>
  /\ NoComponent

CallCalculateStepLabelPositions ==
  /\ ret = NoReturn
  /\ ret' = Returned("calculateStepLabelPositions",
                     calculateStepLabelPositions(call.sourceX, call.sourceY,
                                                 call.targetX, call.targetY))
  /\ UNCHANGED <<nodes, edges, call, componentVars>>

NextStep == CallCalculateStepLabelPositions

SpecStep == InitStep /\ [][NextStep]_vars

(* calculateParallelOffset for the connectors of a drawn edge list, each   *)
(* called with its own source and target node                              *)

GroupEnds == {<<"A", "B">>, <<"B", "A">>, <<"A", "C">>}

EdgeLists ==
  UNION {{[i \in 1..n |-> Edge(IdOrder[i], ends[i][1], ends[i][2])] :
            ends \in [1..n -> GroupEnds]} : n \in 1..MaxGroup}

InitOffset ==
  /\ nodes \in Lookups
  /\ edges \in EdgeLists
  /\ ret = [i \in 1..Len(edges) |-> NoReturn]
  /\ call = Null
  /\ NoComponent

CallCalculateParallelOffset(i) ==
  LET e == edges[i]
      s == nodes[e.source]
      t == nodes[e.target]
  IN  /\ ret[i] = NoReturn
      /\ ret' = [ret EXCEPT ![i] =
                   [fn |-> "calculateParallelOffset",
                    locals |-> ParallelLocals(s, t, e.id, edges),
                    value |-> calculateParallelOffset(s, t, e.id, edges)]]
      /\ UNCHANGED <<nodes, edges, call, componentVars>>

NextOffset == \E i \in 1..Len(edges) : CallCalculateParallelOffset(i)

SpecOffset == InitOffset /\ [][NextOffset]_vars

(* calculateParallelOffset and calculate90DegreeOffset called once, for a   *)
(* connector of a drawn edge list, with the connector's own end nodes or    *)
(* with a pair of nodes that no connector of the list joins                 *)

SharedEdgeLists ==
  UNION {{[i \in 1..n |-> Edge(IdOrder[i], ends[i][1], ends[i][2])] :
            ends \in [1..n -> GroupEnds]} : n \in 1..MaxShared}

UnjoinedEnds == <<"C", "B">>

OffsetCalls(list) ==
  UNION {{[source |-> ends[1], target |-> ends[2], edgeId |-> list[i].id,
           direction |-> d] :
            ends \in {<<list[i].source, list[i].target>>, UnjoinedEnds},
            d \in EdgeDirection} : i \in 1..Len(list)}

InitOffsetCall ==
  /\ nodes \in Lookups
  /\ edges \in SharedEdgeLists
  /\ call \in OffsetCalls(edges)
  /\ ret = NoReturn
  /\ NoComponent

CallParallelOffset ==
  /\ ret = NoReturn
  /\ ret' = Returned("calculateParallelOffset",
                     calculateParallelOffset(nodes[call.source], nodes[call.target],
                                             call.edgeId, edges))
  /\ UNCHANGED <<nodes, edges, call, componentVars>>

Call90DegreeOffset ==
  /\ ret = NoReturn
  /\ ret' = Returned("calculate90DegreeOffset",
                     calculate90DegreeOffset(nodes[call.source], nodes[call.target],
                                             call.edgeId, edges, call.direction))
  /\ UNCHANGED <<nodes, edges, call, componentVars>>

NextOffsetCall == CallParallelOffset \/ Call90DegreeOffset

SpecOffsetCall == InitOffsetCall /\ [][NextOffsetCall]_vars

(* detectOverlappingEdges on a drawn list of edges with styles             *)

TypedEdge(e, s, t, type) ==
  [id |-> e, source |-> s, target |-> t, data |-> [edgeType |-> type]]

OverlapEnds == {<<"A", "B">>, <<"B", "A">>, <<"A", "A">>}

OverlapStyles == {"straight", Null}

TypedEdgeLists ==
  UNION {{[i \in 1..n |-> TypedEdge(IdOrder[i], ends[i][1], ends[i][2], style[i])] :
            ends \in [1..n -> OverlapEnds], style \in [1..n -> OverlapStyles]} :
         n \in 1..MaxOverlap}

OverlapCalls ==
  [nodeId : {"A", "B"}, currentEdgeId : {"e1", "e2", "e5"},
   edgeType : {Null, "", "straight", "step"}]

InitOverlap ==
  /\ edges \in TypedEdgeLists
  /\ call \in OverlapCalls
  /\ ret = NoReturn
  /\ nodes = <<>>
  /\ NoComponent

CallDetectOverlappingEdges ==
  /\ ret = NoReturn
  /\ ret' = Returned("detectOverlappingEdges",
                     detectOverlappingEdges(call.nodeId, call.currentEdgeId,
                                            edges, call.edgeType))
  /\ UNCHANGED <<nodes, edges, call, componentVars>>

NextOverlap == CallDetectOverlappingEdges

SpecOverlap == InitOverlap /\ [][NextOverlap]_vars

(* calculateStraightLabelPositions and calculateAngleLabelPositions on drawn *)
(* arguments: the target on an axis through the source, on a 3-4-5          *)
(* direction from it, or in the same place                                  *)

LabelSpans ==
  {Point(dx, dy) : dx \in {0 - 40, 0 - 30, 0, 30, 40}, dy \in {0 - 40, 0 - 30, 0, 30, 40}}

ExactSpans == {s \in LabelSpans : Px(Hypot(s.x, s.y)) = Hypot(Px(s.x), Px(s.y))}

LabelCalls ==
  {[sourceX |-> Px(x), sourceY |-> Px(7),
    targetX |-> Px(x + s.x), targetY |-> Px(7 + s.y), direction |-> d] :
     x \in {0, 7}, s \in ExactSpans, d \in EdgeDirection}

InitLabel ==
  /\ call \in LabelCalls
  /\ ret = NoReturn
  /\ nodes = <<>>
  /\ edges = <<>>
  /\ NoComponent

CallCalculateStraightLabelPositions ==
  /\ ret = NoReturn
  /\ ret' = Returned("calculateStraightLabelPositions",
                     calculateStraightLabelPositions(call.sourceX, call.sourceY,
                                                     call.targetX, call.targetY))
  /\ UNCHANGED <<nodes, edges, call, componentVars>>

CallCalculateAngleLabelPositions ==
  /\ ret = NoReturn
  /\ ret' = Returned("calculateAngleLabelPositions",
                     calculateAngleLabelPositions(call.sourceX, call.sourceY,
                                                  call.targetX, call.targetY,
                                                  call.direction))
  /\ UNCHANGED <<nodes, edges, call, componentVars>>

NextLabel == CallCalculateStraightLabelPositions \/ CallCalculateAngleLabelPositions

SpecLabel == InitLabel /\ [][NextLabel]_vars

(* getNodeIntersection of the earlier edge utilities, and getEdgeParams of  *)
(* utils/edgeUtils.ts, on two measured nodes whose centres lie on an axis,  *)
(* a 45-degree diagonal or a 3-4-5 direction                                *)

IntersectionSizes ==
  {[width |-> Px(40), height |-> Px(40)], [width |-> Px(100), height |-> Px(100)],
   [width |-> Px(100), height |-> Px(60)]}

AxisSpans ==
  {Point(Px(dx), Px(dy)) : dx \in {0 - 200, 0, 200}, dy \in {0 - 200, 0, 200}}

\* the centres of the two nodes are never the same point
CenterSpans ==
  (AxisSpans \cup {Point(Px(160), Px(120)), Point(Px(0 - 120), Px(160))}) \ {Point(0, 0)}

\* the node of the given size whose centre is the given point
NodeAround(n, center, size) ==
  Node(n, Point(center.x - Quot(size.width, 2), center.y - Quot(size.height, 2)), size)

IntersectionCalls ==
  {[node |-> NodeAround("A", Point(Px(300), Px(300)), s),
    target |-> NodeAround("B", Point(Px(300) + d.x, Px(300) + d.y), t)] :
     s \in IntersectionSizes, t \in IntersectionSizes, d \in CenterSpans}

InitIntersection ==
  /\ call \in IntersectionCalls
  /\ ret = NoReturn
  /\ nodes = <<>>
  /\ edges = <<>>
  /\ NoComponent

CallGetNodeIntersectionDiamond ==
  /\ ret = NoReturn
  /\ ret' = Returned("getNodeIntersection", getNodeIntersectionDiamond(call.node, call.target))
  /\ UNCHANGED <<nodes, edges, call, componentVars>>

CallGetNodeIntersectionCircle ==
  /\ ret = NoReturn
  /\ ret' = Returned("getNodeIntersection", getNodeIntersectionCircle(call.node, call.target))
  /\ UNCHANGED <<nodes, edges, call, componentVars>>

CallGetNodeIntersectionEllipse ==
  /\ ret = NoReturn
  /\ ret' = Returned("getNodeIntersection", getNodeIntersectionEllipse(call.node, call.target))
  /\ UNCHANGED <<nodes, edges, call, componentVars>>

CallGetEdgeParams ==
  /\ ret = NoReturn
  /\ ret' = Returned("getEdgeParams", getEdgeParams(call.node, call.target))
  /\ UNCHANGED <<nodes, edges, call, componentVars>>

NextIntersection ==
  \/ CallGetNodeIntersectionDiamond
  \/ CallGetNodeIntersectionCircle
  \/ CallGetNodeIntersectionEllipse
  \/ CallGetEdgeParams

SpecIntersection == InitIntersection /\ [][NextIntersection]_vars

-----------------------------------------------------------------------------
(* Properties                                                              *)

OnPerimeter(node, p) ==
  LET left == node.position.x
      right == node.position.x + node.measured.width
      top == node.position.y
      bottom == node.position.y + node.measured.height
  IN  /\ left <= p.x /\ p.x <= right /\ top <= p.y /\ p.y <= bottom
      /\ (p.x = left \/ p.x = right \/ p.y = top \/ p.y = bottom)

PositiveSize(node) == measuredWidth(node) > 0 /\ measuredHeight(node) > 0

\* C1: for two nodes of positive size and distinct centers, the points
\* (sx, sy) and (tx, ty) of getEdgeParams lie on the perimeter of the source
\* and of the target node
C1_PointsOnPerimeter ==
  (/\ pass.ran
   /\ PositiveSize(nodes[source]) /\ PositiveSize(nodes[target])
   /\ getNodeCenter(nodes[source]) # getNodeCenter(nodes[target]))
  => /\ OnPerimeter(nodes[source], Point(pass.sx, pass.sy))
     /\ OnPerimeter(nodes[target], Point(pass.tx, pass.ty))

\* the endpoints of the last pass with the offsets of the disambiguator added
OffsetSource ==
  Point(pass.sx + pass.sourceOffset.x, pass.sy + pass.sourceOffset.y)

OffsetTarget ==
  Point(pass.tx + pass.targetOffset.x, pass.ty + pass.targetOffset.y)

Feasible ==
  canCreate90DegreeAngle(OffsetSource.x, OffsetSource.y,
                         OffsetTarget.x, OffsetTarget.y, DirectionOf(edgeType))

PathStart ==
  Point(labelPositions.path[1].x, labelPositions.path[1].y)

PathEnd ==
  Point(labelPositions.path[Len(labelPositions.path)].x,
        labelPositions.path[Len(labelPositions.path)].y)

\* C2: for every style, a feasible angle style included, the displayed path
\* starts at the source point plus the source offset and ends at the target
\* point plus the target offset
C2_PathJoinsOffsetEndpoints ==
  (pass.ran /\ (IsAngle(edgeType) => Feasible))
  => (PathStart = OffsetSource /\ PathEnd = OffsetTarget)

\* C8: when the angle route is infeasible on the offset endpoints no angle
\* path is returned, the displayed path is the straight line between the
\* offset endpoints and the label anchors follow the straight rule
C8_InfeasibleFallsBackToStraight ==
  (pass.ran /\ IsAngle(edgeType) /\ ~Feasible)
  => /\ pass.anglePath = NoPath
     /\ Len(labelPositions.path) = 2
     /\ labelPositions.path[1] = Cmd("M", OffsetSource.x, OffsetSource.y)
     /\ labelPositions.path[2] = Cmd("L", OffsetTarget.x, OffsetTarget.y)
     /\ LET anchors == calculateStraightLabelPositions(
                         OffsetSource.x, OffsetSource.y,
                         OffsetTarget.x, OffsetTarget.y)
        IN  /\ labelPositions.source = anchors.source
            /\ labelPositions.target = anchors.target

C8_Witness ==
  /\ pass.ran /\ IsAngle(edgeType) /\ ~Feasible
  /\ pass.sourceOffset # Point(0, 0)
  /\ OffsetSource # OffsetTarget

\* C9: over the passes of one component the warning of a direction is
\* printed once, on the first infeasible pass for that direction, and never
\* again
C9_WarningOncePerDirection ==
  [][\A d \in EdgeDirection :
       /\ warnings'[d] <= 1
       /\ warnings'[d] >= warnings[d]
       /\ (warnings'[d] > warnings[d])
            => (pass'.direction = d /\ pass'.anglePath = NoPath)
       /\ (pass'.ran /\ pass'.direction = d /\ pass'.anglePath = NoPath)
            => warnings'[d] = 1]_vars

C9_Witness ==
  /\ warnings["right"] = 1 /\ warnings["top"] = 1
  /\ pass.direction = "right" /\ pass.anglePath # NoPath

(* calculateParallelOffset, under SpecOffset *)

Called(i) == ret[i].fn = "calculateParallelOffset"

SamePair(i, j) ==
  {edges[i].source, edges[i].target} = {edges[j].source, edges[j].target}

GroupOf(i) == {j \in 1..Len(edges) : SamePair(i, j)}

ApartEnds(i) ==
  nodes[edges[i].source].position # nodes[edges[i].target].position

\* C3: two distinct connectors joining the same unordered pair of nodes at
\* different positions get different offset vectors, whatever the direction
\* of each
C3_GroupOffsetsDiffer ==
  \A i, j \in 1..Len(edges) :
    (i # j /\ SamePair(i, j) /\ ApartEnds(i) /\ Called(i) /\ Called(j))
    => ret[i].value # ret[j].value

Slot(i) == Px(ret[i].locals.edgeIndex) - ret[i].locals.centerIndex

RECURSIVE SumOver(_, _)
SumOver(S, f) ==
  IF S = {} THEN 0
  ELSE LET j == CHOOSE k \in S : TRUE
       IN  f[j] + SumOver(S \ {j}, f)

\* C4: over a group of N >= 2 connectors of one node pair the signed slots
\* index - (N-1)/2 sum to zero, are pairwise distinct and are closed under
\* negation, and so are the signed magnitudes slot * spacing
C4_SlotsSymmetric ==
  \A i \in 1..Len(edges) :
    LET G == GroupOf(i)
        slots == [j \in G |-> Slot(j)]
        magnitudes == [j \in G |-> ret[j].locals.offset]
    IN  (Cardinality(G) >= 2 /\ \A j \in G : Called(j))
        => /\ SumOver(G, slots) = 0
           /\ \A j, k \in G : j # k => slots[j] # slots[k]
           /\ \A j \in G : \E k \in G : slots[k] = 0 - slots[j]
           /\ \A j \in G : magnitudes[j] = slots[j] * ret[j].locals.baseSpacing
           /\ SumOver(G, magnitudes) = 0
           /\ \A j \in G : \E k \in G : magnitudes[k] = 0 - magnitudes[j]

C4_Witness ==
  \E i \in 1..Len(edges) :
    /\ Cardinality(GroupOf(i)) >= 3
    /\ \A j \in GroupOf(i) : Called(j)
    /\ \E j, k \in GroupOf(i) : edges[j].source # edges[k].source

(* canCreate90DegreeAngle and calculate90DegreePath, under SpecAngle *)

Answered(fn) == ret.fn = fn

\* how far the target lies from the source in the routing direction
Clearance ==
  CASE call.direction = "right"  -> call.targetX - call.sourceX
    [] call.direction = "left"   -> call.sourceX - call.targetX
    [] call.direction = "top"    -> call.sourceY - call.targetY
    [] call.direction = "bottom" -> call.targetY - call.sourceY

\* C5: canCreate90DegreeAngle is true exactly when the clearance in the
\* routing direction is at least 20: false at 19, true at 20 and at 21
C5_TrueFromThreshold ==
  Answered("canCreate90DegreeAngle")
  => (ret.value <=> Clearance >= Px(MIN_ANGLE_DISTANCE))

\* C5 as amended: true exactly when the clearance exceeds 20: false at 19
\* and at 20, true at 21
C5_TrueAboveThreshold ==
  Answered("canCreate90DegreeAngle")
  => /\ (ret.value <=> Clearance > Px(MIN_ANGLE_DISTANCE))
     /\ (Clearance = Px(19) => ~ret.value)
     /\ (Clearance = Px(20) => ~ret.value)
     /\ (Clearance = Px(21) => ret.value)

C5_Witness ==
  /\ Answered("canCreate90DegreeAngle")
  /\ Clearance = Px(20)
  /\ ~ret.value

\* C6: the answer depends on the routing axis only: right iff
\* targetX > sourceX + 20, left iff targetX < sourceX - 20, top iff
\* targetY < sourceY - 20, bottom iff targetY > sourceY + 20
C6_RoutingAxisOnly ==
  Answered("canCreate90DegreeAngle")
  => /\ (call.direction = "right"
           => (ret.value <=> call.targetX > call.sourceX + Px(20)))
     /\ (call.direction = "left"
           => (ret.value <=> call.targetX < call.sourceX - Px(20)))
     /\ (call.direction = "top"
           => (ret.value <=> call.targetY < call.sourceY - Px(20)))
     /\ (call.direction = "bottom"
           => (ret.value <=> call.targetY > call.sourceY + Px(20)))

C6_Witness ==
  /\ Answered("canCreate90DegreeAngle")
  /\ call.direction = "right"
  /\ ret.value
  /\ Abs(call.targetY - call.sourceY) > call.targetX - call.sourceX

Gap == call.targetY - call.sourceY

\* the offset stated for a gap, with the gap below which the half
\* gap is used
StepOffset(g, shrinkBelow) ==
  IF g < Px(MIN_LABEL_DISTANCE) THEN Px(20)
  ELSE IF g < shrinkBelow THEN Quot(g, 2)
  ELSE Px(40)

StepAnchorsAt(d) ==
  /\ ret.value.source = Point(call.sourceX, call.sourceY + d)
  /\ ret.value.target = Point(call.targetX, call.targetY - d)

\* C10: the step label offset is 40 for a gap of at least 55, half the gap
\* for a gap from 20 up to 55, and 20 for a gap below 20
C10_OffsetByGap ==
  Answered("calculateStepLabelPositions")
  => StepAnchorsAt(StepOffset(Gap, Px(LABEL_DISTANCE + 15)))

\* C10 as amended: 40 for a gap of at least 110, half the gap for a gap
\* from 20 up to 110, and 20 for a gap below 20
C10_OffsetByHalfGap ==
  Answered("calculateStepLabelPositions")
  => StepAnchorsAt(StepOffset(Gap, Px(2 * (LABEL_DISTANCE + 15))))

C10_Witness ==
  /\ Answered("calculateStepLabelPositions")
  /\ Gap = Px(60)
  /\ StepAnchorsAt(Px(30))

InSpan(y) == call.sourceY <= y /\ y <= call.targetY

\* C12: for a gap of 0 or more both step label anchors stay within the
\* vertical span from sourceY to targetY
C12_AnchorsInsideSpan ==
  (Answered("calculateStepLabelPositions") /\ Gap >= 0)
  => InSpan(ret.value.source.y) /\ InSpan(ret.value.target.y)

\* C13: with the target below the source the source label anchor is
\* strictly above the target label anchor
C13_SourceAnchorAboveTarget ==
  (Answered("calculateStepLabelPositions") /\ Gap > 0)
  => ret.value.source.y < ret.value.target.y

\* the place of connector i among the connectors of its node pair, from 0
Rank(i) == Cardinality({j \in GroupOf(i) : j < i})

ThreeSlots(i, spacing) ==
  /\ Slot(i) = Px(Rank(i) - 1)
  /\ ret[i].locals.baseSpacing = spacing
  /\ ret[i].locals.offset = Px((Rank(i) - 1) * spacing)

\* C14: three connectors of one node pair get the slots -1, 0, 1 in list
\* order with spacing 2: offsets -2, 0, 2 along the perpendicular axis
C14_ThreeSlotsSpacingTwo ==
  \A i \in 1..Len(edges) :
    (Called(i) /\ Cardinality(GroupOf(i)) = 3) => ThreeSlots(i, 2)

\* C14 as amended: the slots -1, 0, 1 in list order with spacing
\* max(8 - 3, 2) = 5: offsets -5, 0, 5 along the perpendicular axis
C14_ThreeSlotsSpacingFive ==
  \A i \in 1..Len(edges) :
    (Called(i) /\ Cardinality(GroupOf(i)) = 3) => ThreeSlots(i, 5)

C14_Witness ==
  \E i \in 1..Len(edges) :
    /\ Called(i)
    /\ Cardinality(GroupOf(i)) = 3
    /\ Rank(i) = 2
    /\ ret[i].locals.offset = Px(5)

\* the connectors of the list that join the pair of nodes of the call, in
\* either direction
Joining ==
  {i \in 1..Len(edges) :
     {edges[i].source, edges[i].target} = {call.source, call.target}}

\* the connectors of the list that leave the source node of the call
Leaving == {i \in 1..Len(edges) : edges[i].source = call.source}

\* C15: a connector alone in its group gets zero offsets at both ends: at
\* most one edge joins the pair (calculateParallelOffset), at most one edge
\* leaves the source node (calculate90DegreeOffset)
C15_AloneGetsZeroOffsets ==
  /\ (Answered("calculateParallelOffset") /\ Cardinality(Joining) <= 1)
       => ret.value = ZeroOffsets
  /\ (Answered("calculate90DegreeOffset") /\ Cardinality(Leaving) <= 1)
       => ret.value = ZeroOffsets

C15_Witness ==
  /\ Answered("calculateParallelOffset")
  /\ Cardinality(Joining) = 0
  /\ Len(edges) >= 2
  /\ ret.value = ZeroOffsets

\* C16: both offset functions return a sourceOffset equal to the
\* targetOffset
C16_SameOffsetBothEnds ==
  (Answered("calculateParallelOffset") \/ Answered("calculate90DegreeOffset"))
  => ret.value.sourceOffset = ret.value.targetOffset

C16_Witness ==
  /\ Answered("calculate90DegreeOffset")
  /\ ret.value.sourceOffset # Point(0, 0)
  /\ ret.value.sourceOffset = ret.value.targetOffset

\* C17: with two or more edges leaving the source node, a connector routed
\* left or right gets an offset with x = 0 and a connector routed top or
\* bottom gets an offset with y = 0
C17_OffsetAcrossRoutingAxis ==
  (Answered("calculate90DegreeOffset") /\ Cardinality(Leaving) >= 2)
  => /\ call.direction \in {"left", "right"}
          => ret.value.sourceOffset.x = 0 /\ ret.value.targetOffset.x = 0
     /\ call.direction \in {"top", "bottom"}
          => ret.value.sourceOffset.y = 0 /\ ret.value.targetOffset.y = 0

\* the middle of the top edge of a node
TopCenter(node) ==
  Point(node.position.x + Quot(node.measured.width, 2), node.position.y)

\* C18: for two nodes of positive size with identical centers, the point of
\* each node is that node's own top-center point
C18_TopCenterWhenCentersCoincide ==
  (/\ pass.ran
   /\ PositiveSize(nodes[source]) /\ PositiveSize(nodes[target])
   /\ getNodeCenter(nodes[source]) = getNodeCenter(nodes[target]))
  => /\ Point(pass.sx, pass.sy) = TopCenter(nodes[source])
     /\ Point(pass.tx, pass.ty) = TopCenter(nodes[target])

\* what the connector shows in a state
Rendered == Render(nodes, labelPositions)

Missing == source \notin DOMAIN nodes \/ target \notin DOMAIN nodes

BothMeasured ==
  /\ ~Missing
  /\ PositiveSize(nodes[source]) /\ PositiveSize(nodes[target])

\* a step in which the component renders: its first render, a changed
\* selection from the store, or a changed style
RenderPass ==
  /\ mounted'
  /\ \/ ~mounted
     \/ ~SelectionEqual(nodes, nodes', edges, edges')
     \/ edgeType' # edgeType

\* C19: a render pass with an end node of width 0 or height 0, or not
\* measured, shows no path and no label anchors; a path is computed only on
\* a pass where both nodes have positive size
C19_NoPathUntilMeasured ==
  [][(RenderPass /\ ~Missing' /\ ~BothMeasured')
       => (Rendered' = NoElement /\ labelPositions' = labelPositions)]_vars

\* C20: a render pass with the source or the target id missing from the
\* node lookup returns null, and leaves the displayed positions, the
\* warnings and the locals of the last pass as they were
C20_MissingNodeRendersNothing ==
  [][(RenderPass /\ Missing')
       => /\ Rendered' = NoElement
          /\ UNCHANGED <<labelPositions, warningShown, warnings, pass>>]_vars

C20_Witness ==
  /\ mounted
  /\ Missing
  /\ pass.ran
  /\ labelPositions.path # <<>>
  /\ Rendered = NoElement

\* C21: two runs of the pipeline on the same nodes, connector and edge list
\* display the same path and the same two label anchors, whatever the
\* warning ref holds at each run
C21_SameOutputTwice ==
  Len(ret) = 2 => ret[1] = ret[2]

C21_Witness ==
  /\ Len(ret) = 2
  /\ ret[1] = ret[2]
  /\ IsAngle(edgeType)
  /\ pass.anglePath = NoPath
  /\ warnings[DirectionOf(edgeType)] = 1
  /\ WarningKeys \subseteq warningShown

\* the connectors of a list that share an end node with this connector
Touching(list) ==
  SelectSeq(list, LAMBDA e : {e.source, e.target} \cap {source, target} # {})

\* a step that moves only other nodes, or adds or removes only connectors
\* that share no end node with this connector
UnrelatedStep ==
  /\ mounted
  /\ nodes'[source] = nodes[source]
  /\ nodes'[target] = nodes[target]
  /\ Touching(edges') = Touching(edges)
  /\ edgeType' = edgeType
  /\ <<nodes', edges'>> # <<nodes, edges>>

Members(list) == {list[i] : i \in 1..Len(list)}

\* the other edges of the list with the style asked for, when one is given
Others ==
  {e \in Members(edges) :
     /\ e.id # call.currentEdgeId
     /\ (call.edgeType \in {Null, ""} \/ e.data.edgeType = call.edgeType)}

\* C23: the result never lists the current edge; its source list holds
\* exactly the other edges leaving nodeId and its target list exactly the
\* other edges entering nodeId, of the style given if one is given; the
\* counts are the list lengths and hasOverlap says that a list is non-empty
C23_OverlapListsOthers ==
  Answered("detectOverlappingEdges")
  => LET found == ret.value.overlappingEdges
     IN  /\ \A e \in Members(found.source) \cup Members(found.target) :
              e.id # call.currentEdgeId
         /\ Members(found.source) = {e \in Others : e.source = call.nodeId}
         /\ Members(found.target) = {e \in Others : e.target = call.nodeId}
         /\ Len(found.source) = Cardinality(Members(found.source))
         /\ Len(found.target) = Cardinality(Members(found.target))
         /\ ret.value.counts.source = Len(found.source)
         /\ ret.value.counts.target = Len(found.target)
         /\ ret.value.hasOverlap <=> (found.source # <<>> \/ found.target # <<>>)

C23_Witness ==
  /\ Answered("detectOverlappingEdges")
  /\ call.edgeType = "straight"
  /\ \E i \in 1..Len(edges) :
       /\ edges[i].id = call.currentEdgeId
       /\ edges[i].source = call.nodeId
       /\ edges[i].data.edgeType = "straight"
  /\ \E e \in Members(edges) : e.source = call.nodeId /\ e.data.edgeType = Null
  /\ ret.value.counts.source = 1
  /\ ret.value.hasOverlap

\* two nodes of 100x60 at (0,0) and (200,0), joined by one straight connector
TwoNodesInARow ==
  /\ ~Missing
  /\ nodes[source] = Node(source, Point(Px(0), Px(0)), [width |-> Px(100), height |-> Px(60)])
  /\ nodes[target] = Node(target, Point(Px(200), Px(0)), [width |-> Px(100), height |-> Px(60)])
  /\ edges = <<Edge(id, source, target)>>
  /\ edgeType = "straight"

\* C24: for nodes of 100x60 at (0,0) and (200,0) and a single straight
\* connector, the rendered path is one segment on y = 30 from x = 100 to
\* x = 200
C24_BoundaryToBoundarySegment ==
  [][(RenderPass /\ TwoNodesInARow')
       => labelPositions'.path = <<Cmd("M", Px(100), Px(30)), Cmd("L", Px(200), Px(30))>>]_vars

(* calculateStraightLabelPositions and calculateAngleLabelPositions, under  *)
(* SpecLabel                                                                *)

\* the anchor is moved from its endpoint by LABEL_DISTANCE along y only
MovedInY(anchor, x, y) == anchor.x = x /\ Abs(anchor.y - y) = Px(LABEL_DISTANCE)

\* the anchor is moved from its endpoint by LABEL_DISTANCE along x only
MovedInX(anchor, x, y) == anchor.y = y /\ Abs(anchor.x - x) = Px(LABEL_DISTANCE)

\* C25: the anchors of calculateAngleLabelPositions are both displaced by
\* LABEL_DISTANCE perpendicular to the initial routing segment: in y only for
\* the directions right and left, in x only for top and bottom
C25_AnchorsAcrossInitialSegment ==
  Answered("calculateAngleLabelPositions") =>
    IF call.direction \in {"right", "left"}
    THEN /\ MovedInY(ret.value.source, call.sourceX, call.sourceY)
         /\ MovedInY(ret.value.target, call.targetX, call.targetY)
    ELSE /\ MovedInX(ret.value.source, call.sourceX, call.sourceY)
         /\ MovedInX(ret.value.target, call.targetX, call.targetY)

\* the anchor lies on the ray from the point (x, y) in the direction (dx, dy),
\* at distance LABEL_DISTANCE from the point
OnRayAtLabelDistance(anchor, x, y, dx, dy) ==
  /\ (anchor.x - x) * dy = (anchor.y - y) * dx
  /\ (anchor.x - x) * dx + (anchor.y - y) * dy > 0
  /\ (anchor.x - x) * (anchor.x - x) + (anchor.y - y) * (anchor.y - y)
       = Px(LABEL_DISTANCE) * Px(LABEL_DISTANCE)

Sign(n) == IF n > 0 THEN 1 ELSE IF n < 0 THEN 0 - 1 ELSE 0

OnRay(point, from, toward) ==
  /\ (point.x - from.x) * (toward.y - from.y) = (point.y - from.y) * (toward.x - from.x)
  /\ (point.x - from.x) * (toward.x - from.x) + (point.y - from.y) * (toward.y - from.y) > 0

\* C27: the boundary point of a node lies in the direction from the node's
\* own centre to the other node's own centre, also when the two nodes have
\* different sizes
C27_TowardTheOtherCenter ==
  Answered("getNodeIntersection") =>
    OnRay(ret.value, getNodeCenter(call.node), getNodeCenter(call.target))

\* C28: after node moves, measurement updates and edge-set changes, the
\* displayed path and label anchors are those the layout effect computes from
\* the current node positions, node sizes, edge list and style: running the
\* effect again would display the same
C28_DisplayedIsCurrent ==
  (mounted /\ ~Missing) =>
    ENABLED (/\ LayoutEffect(nodes, edges, edgeType)
             /\ labelPositions' = labelPositions
             /\ UNCHANGED <<nodes, edges, edgeType, mounted, call, ret>>)

(* getEdgeParams, under SpecIntersection *)

Opposite(side) ==
  CASE side = "right" -> "left"
    [] side = "left" -> "right"
    [] side = "top" -> "bottom"
    [] side = "bottom" -> "top"

\* C29: for two nodes with distinct centres getEdgeParams puts the two ends
\* on opposite sides, also when the centres are on a 45-degree diagonal
C29_OppositeSides ==
  (Answered("getEdgeParams") /\ getNodeCenter(call.node) # getNodeCenter(call.target)) =>
    ret.value.targetPos = Opposite(ret.value.sourcePos)

\* the target centre is on the 45-degree diagonal below and right of the
\* source centre, where the angle is exactly 45 and -135 from the other end
C29_Witness ==
  /\ Answered("getEdgeParams")
  /\ ret.value.tx - ret.value.sx = Px(200)
  /\ ret.value.ty - ret.value.sy = Px(200)
  /\ ret.value.sourcePos = "bottom"
  /\ ret.value.targetPos = "top"

(* calculate90DegreeOffset, under SpecOffsetCall *)

\* the connectors that leave the source node of the call, in list order
Fan == SelectSeq(edges, LAMBDA e : e.source = call.source)

\* the component of an offset that is not fixed to zero
Shift(offset) == IF offset.x # 0 THEN offset.x ELSE offset.y

\* the offset calculate90DegreeOffset gives the connector e of the fan, for
\* the nodes and direction of the call
FanOffset(e) ==
  calculate90DegreeOffset(nodes[call.source], nodes[call.target], e.id, edges,
                          call.direction).sourceOffset

\* C30: with n >= 2 connectors leaving the source node, the spacing
\* max(MAX_EDGE_SPACING / 2 - n, MIN_EDGE_SPACING) of calculate90DegreeOffset
\* is MIN_EDGE_SPACING = 2: the offset of the connector at index i is
\* (i - (n - 1) / 2) * 2 on one axis and zero on the other, and neighbouring
\* connectors of the fan are 2 apart
C30_FanSpacingIsMinimum ==
  (Answered("calculate90DegreeOffset") /\ Len(Fan) >= 2) =>
    LET n == Len(Fan)
    IN  /\ Max(MAX_EDGE_SPACING \div 2 - n, MIN_EDGE_SPACING) = MIN_EDGE_SPACING
        /\ MIN_EDGE_SPACING = 2
        /\ \A i \in 1..n :
             Fan[i].id = call.edgeId =>
               LET shift == 2 * Px(i - 1) - Px(n - 1)
               IN  /\ ret.value.sourceOffset \in {Point(0, shift), Point(shift, 0)}
                   /\ ret.value.targetOffset = ret.value.sourceOffset
                   /\ i < n => /\ FanOffset(Fan[i + 1]).x - FanOffset(Fan[i]).x
                                    + FanOffset(Fan[i + 1]).y - FanOffset(Fan[i]).y = Px(2)
                               /\ FanOffset(Fan[i]) = ret.value.sourceOffset

\* the first of three connectors that leave the source node: 8 / 2 - 3 is
\* below the minimum, and the connector is moved by (0 - 1) * 2
C30_Witness ==
  /\ Answered("calculate90DegreeOffset")
  /\ Len(Fan) = 3
  /\ Fan[1].id = call.edgeId
  /\ MAX_EDGE_SPACING \div 2 - Len(Fan) < MIN_EDGE_SPACING
  /\ Shift(ret.value.sourceOffset) = 0 - Px(2)

====
